---------------------------- MODULE Spec2Model ----------------------------
(***************************************************************************)
(* Mean-reduction kernel generators of the TFLite GPU (GL) delegate.       *)
(*                                                                         *)
(* Four GenerateCode variants live in the repository:                      *)
(*   Mean1024    src/unnamed/part_001, lines 33-162   (h*w >= 1024)        *)
(*   Mean2048    src/unnamed/part_001, lines 206-345  (h*w >= 2048)        *)
(*   Mean256     src/unnamed/part_002                  (h*w <= 256)        *)
(*   MeanReduce  gl/kernels/mean_reduce.cc             (no branch)         *)
(*                                                                         *)
(* Spec        the generator: calls of GenerateCode on a caller's object.  *)
(* KernelSpec  one dispatch of an emitted parallel kernel, invocation by   *)
(*             invocation.                                                 *)
(***************************************************************************)
EXTENDS Integers, Sequences, FiniteSets, TLC

VARIABLES
    generated_code,  \* the caller's GeneratedCode object (*generated_code)
    status,          \* Status returned by the last GenerateCode call
    call,            \* the last call: its variant and attr.dims
    shape_seen,      \* what the last call read from input->tensor.shape
    kernel,          \* the kernel being dispatched (KernelSpec), or NoKernel
    pc,              \* position of every invocation of the dispatch
    sh_mem,          \* shared memory of every workgroup: slot -> value
    output,          \* output tensor: channel group -> value written
    arrived,         \* per workgroup: invocations at the barrier, and gone
    released,        \* workgroups whose barrier has let invocations through
    hung,            \* workgroups whose barrier will never release
    sched,           \* lowest invocation still to run each phase
    trace,           \* what the invocations did (reads, writes, divisions)
    counters,        \* the plugin's file-scope counters and callback
    calls            \* plugin calls made since the last initialize_counters

vars == <<generated_code, status, call, shape_seen,
          kernel, pc, sh_mem, output, arrived, released, hung, sched, trace,
          counters, calls>>

genVars == <<generated_code, status, call, shape_seen>>
kernelVars ==
    <<kernel, pc, sh_mem, output, arrived, released, hung, sched, trace>>
pluginVars == <<counters, calls>>

-----------------------------------------------------------------------------
(* Bounds of the model *)

\* Input heights are 1..MaxH.
MaxH == 2
\* Input channel counts of the generator calls are 1..MaxC.
MaxC == 5

-----------------------------------------------------------------------------
(* Types of the delegate *)

Axis == {"HEIGHT", "WIDTH", "CHANNELS"}

\* std::set<Axis>({Axis::HEIGHT, Axis::WIDTH})
HeightWidth == {"HEIGHT", "WIDTH"}

uint3(a, b, c) == [x |-> a, y |-> b, z |-> c]

\* uint3(): value-initialisation, every component zero
uint3Default == uint3(0, 0, 0)

\* Variable{name, value} of a parameter list
Variable(n, v) == [name |-> n, value |-> v]

\* Variable{"sh_mem", std::vector<float4>(count)}: the element count is what
\* the declaration carries
SharedVariable(n, count) == [name |-> n, count |-> count]

\* a default-constructed GeneratedCode
EmptyCode ==
    [output |-> "ONLY_DEFINITIONS", parameters |-> <<>>,
     shared_variables |-> <<>>,
     workload |-> uint3Default, workgroup |-> uint3Default,
     source |-> "", input |-> "ONLY_DEFINITIONS"]

NoShape == [c |-> 0, h |-> 0, w |-> 0]

\* ceil(a / b) over the integers, b > 0 (a may be negative)
CeilDiv(a, b) == -((-a) \div b)


-----------------------------------------------------------------------------
(* The generators *)

\* thresholds of the three branching generators
Threshold1024 == 1024
Threshold2048 == 2048
Threshold256 == 256

Thresholds == {Threshold1024, Threshold2048, Threshold256}

Variants == {"Mean1024", "Mean2048", "Mean256", "MeanReduce"}
BranchingVariants == {"Mean1024", "Mean2048", "Mean256"}

\* a check that only asks for HEIGHT and WIDTH to be among the axes
DimsSupported_Superset(dims) == HeightWidth \subseteq dims

\* attr.dims != std::set<Axis>({Axis::HEIGHT, Axis::WIDTH}) is the failure
DimsSupported(dims) == dims = HeightWidth

\* {"input_data_0_h", h}, {"input_data_0_w", w}, {"input_data_0_c", c}
ParametersHWC(shape) ==
    << Variable("input_data_0_h", shape.h),
       Variable("input_data_0_w", shape.w),
       Variable("input_data_0_c", shape.c) >>

\* {"input_data_0_h", h}, {"input_data_0_w", w}
ParametersHW(shape) ==
    << Variable("input_data_0_h", shape.h),
       Variable("input_data_0_w", shape.w) >>

kWorkgroupHintX == 4
kWorkgroupHintY == 4

\* a hint with the offset added: ceil(c / 4.0 + .0001)
kWorkgroupHintZ_Added(c) == CeilDiv(c * 2500 + 1, 10000)

\* int kWorkgroupHintZ = ceil(c / 4.0 - .0001), in units of 1/10000
kWorkgroupHintZ(c) == CeilDiv(c * 2500 - 1, 10000)

\* a shared array with one element per invocation of a workgroup
Mean1024_SharedCount_PerWorkgroup(c) ==
    (kWorkgroupHintX \div 2) * (kWorkgroupHintY \div 2) * kWorkgroupHintZ(c)

\* kWorkgroupHintX/2 * kWorkgroupHintX * kWorkgroupHintY/2 * kWorkgroupHintY
\*   * kWorkgroupHintZ, evaluated left to right in int arithmetic
Mean1024_SharedCount(c) ==
    ((((kWorkgroupHintX \div 2) * kWorkgroupHintX) * kWorkgroupHintY) \div 2)
        * kWorkgroupHintY * kWorkgroupHintZ(c)

\* std::vector<float4>(256 * 10)
Mean2048_SharedCount == 256 * 10

\* the branch condition of each generator: TRUE selects the parallel kernel
Mean1024_Parallel(shape) == shape.h * shape.w >= Threshold1024
Mean2048_Parallel(shape) == shape.h * shape.w >= Threshold2048
Mean256_Parallel(shape) == shape.h * shape.w <= Threshold256

\* the GeneratedCode assigned by Mean (threshold 1024) once the axes passed
Mean1024_Code(shape) ==
    IF Mean1024_Parallel(shape)
    THEN [output |-> "AUTO",
          parameters |-> ParametersHWC(shape),
          shared_variables |->
              <<SharedVariable("sh_mem", Mean1024_SharedCount(shape.c))>>,
          workload |-> uint3(kWorkgroupHintX, kWorkgroupHintY, 1),
          workgroup |-> uint3(kWorkgroupHintX \div 2, kWorkgroupHintY \div 2,
                              kWorkgroupHintZ(shape.c)),
          source |-> "Mean1024_parallel",
          input |-> "ONLY_DEFINITIONS"]
    ELSE [output |-> "AUTO",
          parameters |-> ParametersHWC(shape),
          shared_variables |-> <<>>,
          workload |-> uint3Default,
          workgroup |-> uint3Default,
          source |-> "Mean1024_serial",
          input |-> "ONLY_DEFINITIONS"]

\* the GeneratedCode assigned by Mean (threshold 2048) once the axes passed
Mean2048_Code(shape) ==
    IF Mean2048_Parallel(shape)
    THEN [output |-> "AUTO",
          parameters |-> ParametersHWC(shape),
          shared_variables |->
              <<SharedVariable("sh_mem", Mean2048_SharedCount)>>,
          workload |-> uint3(1, 1, 1),
          workgroup |-> uint3(8, 8, 8),
          source |-> "Mean2048_parallel",
          input |-> "ONLY_DEFINITIONS"]
    ELSE [output |-> "AUTO",
          parameters |-> ParametersHWC(shape),
          shared_variables |->
              <<SharedVariable("sh_mem", Mean2048_SharedCount)>>,
          workload |-> uint3Default,
          workgroup |-> uint3Default,
          source |-> "Mean2048_serial",
          input |-> "ONLY_DEFINITIONS"]

\* the GeneratedCode assigned by Mean (threshold 256) once the axes passed
Mean256_Code(shape) ==
    IF Mean256_Parallel(shape)
    THEN [output |-> "AUTO",
          parameters |-> ParametersHW(shape),
          shared_variables |-> <<SharedVariable("sh_mem", 0)>>,
          workload |-> uint3(1, 1, 1),
          workgroup |-> uint3(16, 16, 4),
          source |-> "Mean256_parallel",
          input |-> "ONLY_DEFINITIONS"]
    ELSE [output |-> "AUTO",
          parameters |-> ParametersHW(shape),
          shared_variables |-> <<>>,
          workload |-> uint3Default,
          workgroup |-> uint3Default,
          source |-> "Mean256_serial",
          input |-> "ONLY_DEFINITIONS"]

\* the GeneratedCode assigned by MeanReduce once the axes passed
MeanReduce_Code(shape) ==
    [output |-> "ONLY_DEFINITIONS",
     parameters |-> ParametersHW(shape),
     shared_variables |-> <<>>,
     workload |-> uint3Default,
     workgroup |-> uint3(16, 16, 4),
     source |-> "MeanReduce",
     input |-> "ONLY_DEFINITIONS"]

\* a failure path that clears the caller's object before it returns
Rejected_Cleared(old) ==
    [status |-> "InvalidArgument", code |-> EmptyCode, seen |-> NoShape]

\* what a call returned: the status, the caller's object after the call, and
\* the shape it read from the input tensor (NoShape when it read none)
Rejected(old) ==
    [status |-> "InvalidArgument", code |-> old, seen |-> NoShape]
Generated(code, shape) ==
    [status |-> "Ok", code |-> code, seen |-> shape]

Mean1024_GenerateCode(dims, shape, old) ==
    IF ~DimsSupported(dims) THEN Rejected(old)
    ELSE Generated(Mean1024_Code(shape), shape)

\* a generator that keeps the result of its previous successful call
Mean2048_GenerateCode_Cached(dims, shape, old) ==
    IF ~DimsSupported(dims) THEN Rejected(old)
    ELSE IF old.source \in {"Mean2048_parallel", "Mean2048_serial"}
    THEN Generated(old, shape)
    ELSE Generated(Mean2048_Code(shape), shape)

Mean2048_GenerateCode(dims, shape, old) ==
    IF ~DimsSupported(dims) THEN Rejected(old)
    ELSE Generated(Mean2048_Code(shape), shape)

Mean256_GenerateCode(dims, shape, old) ==
    IF ~DimsSupported(dims) THEN Rejected(old)
    ELSE Generated(Mean256_Code(shape), shape)

MeanReduce_GenerateCode(dims, shape, old) ==
    IF ~DimsSupported(dims) THEN Rejected(old)
    ELSE Generated(MeanReduce_Code(shape), shape)

-----------------------------------------------------------------------------
(* Inputs of the generator calls *)

\* widths on both sides of every threshold
Widths == UNION {{T - 1, T, T + 1} : T \in Thresholds}

Shapes == [h : 1..MaxH, w : Widths, c : 1..MaxC]

\* the input shapes tried together with unsupported axes
RejectShapes == {[h |-> 1, w |-> 1, c |-> 1], [h |-> MaxH, w |-> 2049, c |-> MaxC]}

ShapesFor(dims) == IF dims = HeightWidth THEN Shapes ELSE RejectShapes

DimsSets == SUBSET Axis

-----------------------------------------------------------------------------
(* The specification of the generator *)

NoKernel == [variant |-> "none", invocations |-> 0, groups |-> 0]

\* int num_delegates_created = 0; ... destruction_callback = nullptr
StaticCounters ==
    [num_delegates_created |-> 0, num_delegates_destroyed |-> 0,
     num_delegates_invoked |-> 0, options_counter |-> 0,
     destruction_callback |-> "nullptr"]

\* no plugin call made yet, no delegate alive
NoCalls == [created |-> 0, destroyed |-> 0, live |-> 0]

IdleTrace ==
    [overread |-> FALSE, early |-> FALSE, divided |-> FALSE, uninit |-> FALSE,
     divs |-> <<>>]

Init ==
    /\ generated_code = EmptyCode
    /\ status = "none"
    /\ call = [dims |-> {}, variant |-> "none"]
    /\ shape_seen = NoShape
    /\ kernel = NoKernel
    /\ pc = <<>>
    /\ sh_mem = <<>>
    /\ output = <<>>
    /\ arrived = <<>>
    /\ released = {}
    /\ hung = {}
    /\ sched = [p1 |-> 1, p2 |-> 1]
    /\ trace = IdleTrace
    /\ counters = StaticCounters
    /\ calls = NoCalls

Returned(v, dims, r) ==
    /\ generated_code' = r.code
    /\ status' = r.status
    /\ call' = [dims |-> dims, variant |-> v]
    /\ shape_seen' = r.seen
    /\ UNCHANGED <<kernelVars, pluginVars>>

CallMean1024 ==
    \E dims \in DimsSets : \E shape \in ShapesFor(dims) :
        Returned("Mean1024", dims,
                 Mean1024_GenerateCode(dims, shape, generated_code))

CallMean2048 ==
    \E dims \in DimsSets : \E shape \in ShapesFor(dims) :
        Returned("Mean2048", dims,
                 Mean2048_GenerateCode(dims, shape, generated_code))

CallMean256 ==
    \E dims \in DimsSets : \E shape \in ShapesFor(dims) :
        Returned("Mean256", dims,
                 Mean256_GenerateCode(dims, shape, generated_code))

CallMeanReduce ==
    \E dims \in DimsSets : \E shape \in ShapesFor(dims) :
        Returned("MeanReduce", dims,
                 MeanReduce_GenerateCode(dims, shape, generated_code))

Next ==
    \/ CallMean1024
    \/ CallMean2048
    \/ CallMean256
    \/ CallMeanReduce

Spec == Init /\ [][Next]_vars


-----------------------------------------------------------------------------
(* Reading a GeneratedCode *)

ParallelSources == {"Mean1024_parallel", "Mean2048_parallel", "Mean256_parallel"}
SerialSources == {"Mean1024_serial", "Mean2048_serial", "Mean256_serial"}

\* the declared element count of sh_mem (zero when it is not declared)
SharedCount(code) ==
    LET sv == code.shared_variables
        idx == {i \in DOMAIN sv : sv[i].name = "sh_mem"}
    IN IF idx = {} THEN 0 ELSE sv[CHOOSE i \in idx : TRUE].count

\* the parameter list holds name exactly once, with value v
HasParameter(code, n, v) ==
    LET ps == code.parameters
        idx == {i \in DOMAIN ps : ps[i].name = n}
    IN /\ Cardinality(idx) = 1
       /\ \A i \in idx : ps[i].value = v

SpatialVolume(code) == code.workgroup.x * code.workgroup.y

ThresholdOf(v) ==
    CASE v = "Mean1024" -> Threshold1024
      [] v = "Mean2048" -> Threshold2048
      [] v = "Mean256" -> Threshold256

-----------------------------------------------------------------------------
(* Claims about the generator (Spec) *)

\* C1: in every variant GenerateCode returns InvalidArgument exactly when
\* attr.dims differs from {HEIGHT, WIDTH}, and Ok for {HEIGHT, WIDTH}.
C1_InvalidArgumentIffDims ==
    status # "none" =>
        /\ (status = "InvalidArgument") <=> (call.dims # HeightWidth)
        /\ (call.dims = HeightWidth) => (status = "Ok")

\* a call asking for the mean over HEIGHT alone was rejected
C1_Witness ==
    /\ status = "InvalidArgument"
    /\ call.dims = {"HEIGHT"}
    /\ call.variant = "MeanReduce"

\* C2: a call that fails with InvalidArgument leaves the caller's
\* GeneratedCode exactly as it was and reads no input shape.
C2_NoPartialResult ==
    [][status' = "InvalidArgument" =>
         /\ generated_code' = generated_code
         /\ shape_seen' = NoShape]_vars

\* a rejected call made on an object that an earlier call had filled
C2_Witness ==
    /\ status = "InvalidArgument"
    /\ generated_code.source = "Mean2048_parallel"
    /\ call.variant = "Mean1024"

\* C3: for {HEIGHT, WIDTH} every variant succeeds and returns the parameters
\* input_data_0_h, input_data_0_w and input_data_0_c, each once, with the
\* values of the input shape.
C3_ParametersHoldShape ==
    (status # "none" /\ call.dims = HeightWidth) =>
        /\ status = "Ok"
        /\ HasParameter(generated_code, "input_data_0_h", shape_seen.h)
        /\ HasParameter(generated_code, "input_data_0_w", shape_seen.w)
        /\ HasParameter(generated_code, "input_data_0_c", shape_seen.c)

\* C4: in each branching generator h*w < T gives the serial kernel with
\* spatial workgroup volume 1, and h*w >= T the parallel kernel with spatial
\* workgroup volume > 1 and a shared-memory element count > 0.
C4_StrategyByThreshold ==
    (status = "Ok" /\ call.variant \in BranchingVariants) =>
        LET n == shape_seen.h * shape_seen.w
            t == ThresholdOf(call.variant)
        IN /\ n < t =>
                /\ generated_code.source \in SerialSources
                /\ SpatialVolume(generated_code) = 1
           /\ n >= t =>
                /\ generated_code.source \in ParallelSources
                /\ SpatialVolume(generated_code) > 1
                /\ SharedCount(generated_code) > 0

\* C5: the declared element count of sh_mem is workgroup.x * workgroup.y *
\* ceil(c/4) for a parallel result and zero for a serial result.
C5_SharedMemorySizing ==
    (status = "Ok" /\ call.variant \in BranchingVariants) =>
        IF generated_code.source \in ParallelSources
        THEN SharedCount(generated_code)
                 = SpatialVolume(generated_code) * CeilDiv(shape_seen.c, 4)
        ELSE SharedCount(generated_code) = 0


-----------------------------------------------------------------------------
(* One dispatch of an emitted parallel kernel *)

\* An invocation may run ahead of the lowest invocation that has not yet run
\* the same phase by fewer than SchedWindow positions.
SchedWindow == 2
\* Input tensors are filled with the patterns 0..MaxPattern.
MaxPattern == 1

Min(a, b) == IF a <= b THEN a ELSE b
Max(a, b) == IF a >= b THEN a ELSE b

RECURSIVE Pow(_, _)
Pow(b, e) == IF e = 0 THEN 1 ELSE b * Pow(b, e - 1)

\* A vec4 value, one lane of it: the rational num / size^div, where div counts
\* the divisions by size that went into it.
Val(n) == [num |-> n, div |-> 0]
Zero == Val(0)

\* sum += v
VAdd(a, b, size) ==
    IF a.div = b.div THEN [num |-> a.num + b.num, div |-> a.div]
    ELSE IF a.div < b.div
    THEN [num |-> a.num * Pow(size, b.div - a.div) + b.num, div |-> b.div]
    ELSE [num |-> a.num + b.num * Pow(size, a.div - b.div), div |-> a.div]

\* sum / size
VDiv(a) == [num |-> a.num, div |-> a.div + 1]

\* equality of the rationals two values stand for
VEq(a, b, size) ==
    a.num * Pow(size, b.div) = b.num * Pow(size, a.div)

\* the value of parameter $name$ substituted into the source
ParamValue(code, n) ==
    LET ps == code.parameters
    IN ps[CHOOSE i \in DOMAIN ps : ps[i].name = n].value

\* element idx of the input buffer, filled with pattern p
InputAt(p, idx) == 1 + ((p * idx) % 4)

\* $input_data_0[x, y, z]$: the accessor resolves the coordinates to the
\* element x + w * (y + h * z) of the input buffer
ReadInput(code, p, x, y, z) ==
    InputAt(p, x + ParamValue(code, "input_data_0_w")
                     * (y + ParamValue(code, "input_data_0_h") * z))

\* gl_NumWorkGroups: the workload rounded up to whole workgroups
NumWorkGroups(code) ==
    uint3(CeilDiv(code.workload.x, code.workgroup.x),
          CeilDiv(code.workload.y, code.workgroup.y),
          CeilDiv(code.workload.z, code.workgroup.z))

\* the extent of the grid of invocations of the dispatch
GridSize(code) ==
    LET g == NumWorkGroups(code)
    IN uint3(g.x * code.workgroup.x, g.y * code.workgroup.y,
             g.z * code.workgroup.z)

NumInvocations(code) ==
    LET g == GridSize(code) IN g.x * g.y * g.z

NumGroups(code) ==
    LET g == NumWorkGroups(code) IN g.x * g.y * g.z

GroupVolume(code) ==
    code.workgroup.x * code.workgroup.y * code.workgroup.z

\* gl_GlobalInvocationID of invocation inv (1..NumInvocations)
Gid(code, inv) ==
    LET g == GridSize(code)
        k == inv - 1
    IN uint3(k % g.x, (k \div g.x) % g.y, k \div (g.x * g.y))

\* gl_LocalInvocationID
LocalID(code, inv) ==
    LET g == Gid(code, inv)
    IN uint3(g.x % code.workgroup.x, g.y % code.workgroup.y,
             g.z % code.workgroup.z)

\* the workgroup of invocation inv, 1..NumGroups
GroupOf(code, inv) ==
    LET g == Gid(code, inv)
        n == NumWorkGroups(code)
    IN 1 + (g.x \div code.workgroup.x)
         + n.x * ((g.y \div code.workgroup.y)
                  + n.y * (g.z \div code.workgroup.z))

\* an invocation that reaches the barrier without having stored its sum
Arrives_NoStore(slot, value, overread, divs) ==
    [next |-> "barrier", slot |-> -1, value |-> value,
     overread |-> overread, divs |-> divs]

\* what an invocation did up to the barrier
Arrives(slot, value, overread, divs) ==
    [next |-> "barrier", slot |-> slot, value |-> value,
     overread |-> overread, divs |-> divs]
\* a return before the barrier
ReturnsEarly ==
    [value |-> Zero, overread |-> FALSE, divs |-> 0, slot |-> -1,
     next |-> "returned"]
\* what an invocation did after the barrier
Writes(value, uninit, divs) ==
    [write |-> TRUE, value |-> value, uninit |-> uninit, divs |-> divs]
Exits ==
    [value |-> Zero, uninit |-> FALSE, divs |-> 0, write |-> FALSE]


\* for (int i = from; i < to; i++) sum += sh_mem[i + z_offset], the range
\* split in halves to keep the evaluation shallow; a slot that no invocation
\* wrote holds the indeterminate value garbage
CombineRange(mem, from, to, z_offset, garbage, size) ==
    LET part[a \in from..to, b \in from..to] ==
            IF a >= b THEN Zero
            ELSE IF b = a + 1
            THEN (IF (a + z_offset) \in DOMAIN mem
                  THEN mem[a + z_offset] ELSE garbage)
            ELSE CHOOSE v \in {VAdd(l, r, size) :
                                l \in {part[a, (a + b) \div 2]},
                                r \in {part[(a + b) \div 2, b]}} : TRUE
    IN part[from, to]

\* sum = vec4(0.0); for (int i = from; i < workGridSize; i++) sum += ...
CombineSum(mem, from, workGridSize, z_offset, garbage, size) ==
    CHOOSE v \in {VAdd(Zero, s, size) :
                    s \in {CombineRange(mem, from, workGridSize, z_offset,
                                        garbage, size)}} : TRUE

\* the combine loop reads a slot that was never written
ReadsUnwritten(mem, workGridSize, z_offset) ==
    \E i \in 0..(workGridSize - 1) : (i + z_offset) \notin DOMAIN mem

-----------------------------------------------------------------------------
(* The parallel kernel of Mean, threshold 2048 *)

\* a chunk size rounded down
Mean2048_TaskSize_Floor(inputSize, workGridSize) == inputSize \div workGridSize

\* int taskSize = int(ceil(inputSize / float(workGridSize)))
Mean2048_TaskSize(inputSize, workGridSize) == CeilDiv(inputSize, workGridSize)

\* i >= inputSize ? zilch : $input_data_0[...]$ -- TRUE when the accessor is
\* evaluated
Mean2048_Reads(i, inputSize) == ~(i >= inputSize)

\* for (int i = startIndex; i < startIndex + taskSize; i+=1) sum += ...
\* (the range split in halves to keep the evaluation shallow)
Mean2048_Accumulate(code, p, i, last, z_offset, inputSize) ==
    LET part[a \in i..last, b \in i..last] ==
            IF a >= b THEN 0
            ELSE IF b = a + 1
            THEN (IF Mean2048_Reads(a, inputSize)
                  THEN ReadInput(code, p, a + z_offset, 0, 0) ELSE 0)
            ELSE part[a, (a + b) \div 2] + part[(a + b) \div 2, b]
    IN part[i, last]

\* the source up to the barrier
Mean2048_Phase1(code, p, inv) ==
    LET gid == Gid(code, inv)
        localID == LocalID(code, inv)
        cDim == ParamValue(code, "input_data_0_c")
    IN IF 4 * gid.z >= cDim      \* gid.z >= cDim / 4.0
       THEN ReturnsEarly
       ELSE
        LET inputSize == ParamValue(code, "input_data_0_w")
                             * ParamValue(code, "input_data_0_h")
            sizeY == code.workgroup.y
            sizeX == code.workgroup.x
            workGridSize == sizeX * sizeY
            taskSize == Mean2048_TaskSize(inputSize, workGridSize)
            gridID == localID.y * sizeX + localID.x
            z_offset == localID.z * inputSize
            startIndex == gridID * taskSize
            sum == Mean2048_Accumulate(code, p, startIndex,
                                       startIndex + taskSize, z_offset,
                                       inputSize)
        IN Arrives(gridID + localID.z * workGridSize, Val(sum),
                   \E i \in startIndex..(startIndex + taskSize - 1) :
                       Mean2048_Reads(i, inputSize) /\ i >= inputSize,
                   0)

\* the flat indices at which invocation inv evaluates the input accessor
Mean2048_Chunk(code, inv) ==
    LET localID == LocalID(code, inv)
        inputSize == ParamValue(code, "input_data_0_w")
                         * ParamValue(code, "input_data_0_h")
        workGridSize == code.workgroup.x * code.workgroup.y
        taskSize == Mean2048_TaskSize(inputSize, workGridSize)
        startIndex == (localID.y * code.workgroup.x + localID.x) * taskSize
    IN {i \in startIndex..(startIndex + taskSize - 1) :
            Mean2048_Reads(i, inputSize)}

\* the source after the barrier
Mean2048_Phase2(code, p, inv, mem, garbage) ==
    LET gid == Gid(code, inv)
        localID == LocalID(code, inv)
        inputSize == ParamValue(code, "input_data_0_w")
                         * ParamValue(code, "input_data_0_h")
        workGridSize == code.workgroup.x * code.workgroup.y
        z_offset == localID.z * workGridSize
    IN IF gid.x >= 1 \/ gid.y >= 1
       THEN Exits
       ELSE Writes(VDiv(CombineSum(mem, 0, workGridSize, z_offset, garbage,
                                   inputSize)),
                   ReadsUnwritten(mem, workGridSize, z_offset), 1)

-----------------------------------------------------------------------------
(* The parallel kernel of Mean, threshold 1024 *)

\* int taskSize = int(ceil(size / float(workGridSize)))
Mean1024_TaskSize(size, workGridSize) == CeilDiv(size, workGridSize)

\* i < size ? $input_data_0[z_offset + i, 0, 0]$ : vec4(0.0)
Mean1024_Reads(i, size) == i < size

\* for (int i = startIndex; i < startIndex + taskSize; i++) sum += ...
\* (the range split in halves to keep the evaluation shallow)
Mean1024_Accumulate(code, p, i, last, z_offset, size) ==
    LET part[a \in i..last, b \in i..last] ==
            IF a >= b THEN 0
            ELSE IF b = a + 1
            THEN (IF Mean1024_Reads(a, size)
                  THEN ReadInput(code, p, z_offset + a, 0, 0) ELSE 0)
            ELSE part[a, (a + b) \div 2] + part[(a + b) \div 2, b]
    IN part[i, last]

\* the source up to the barrier
Mean1024_Phase1(code, p, inv) ==
    LET gid == Gid(code, inv)
        localID == LocalID(code, inv)
        size == ParamValue(code, "input_data_0_w")
                    * ParamValue(code, "input_data_0_h")
        groupsX == NumWorkGroups(code).x
        groupsY == NumWorkGroups(code).y
        sizeX == code.workgroup.x
        sizeY == code.workgroup.y
        workGridSize == sizeX * sizeY * groupsX * groupsY
        local_grid_index == sizeX * localID.y + localID.x
        global_grid_index == gid.x * sizeX * sizeY * groupsY
                                 + gid.y * sizeX * sizeY
        taskSize == Mean1024_TaskSize(size, workGridSize)
        flattenedIndex == global_grid_index + local_grid_index
        z_offset == gid.z * size
        startIndex == flattenedIndex * taskSize
        sum == Mean1024_Accumulate(code, p, startIndex, startIndex + taskSize,
                                   z_offset, size)
    IN Arrives(flattenedIndex + gid.z * workGridSize, Val(sum),
               \E i \in startIndex..(startIndex + taskSize - 1) :
                   Mean1024_Reads(i, size) /\ i >= size,
               0)

\* the source after the barrier
Mean1024_Phase2(code, p, inv, mem, garbage) ==
    LET gid == Gid(code, inv)
        size == ParamValue(code, "input_data_0_w")
                    * ParamValue(code, "input_data_0_h")
        workGridSize == code.workgroup.x * code.workgroup.y
                            * NumWorkGroups(code).x * NumWorkGroups(code).y
        z_offset == gid.z * workGridSize
    IN IF gid.x >= 1 \/ gid.y >= 1
       THEN Exits
       ELSE Writes(VDiv(CombineSum(mem, 0, workGridSize, z_offset, garbage,
                                   size)),
                   ReadsUnwritten(mem, workGridSize, z_offset), 1)

-----------------------------------------------------------------------------
(* The parallel kernel of Mean, threshold 256 *)

\* a guard that lets every iteration read
Mean256_Reads_Always(start, i, size) == TRUE

\* start < size ? $input_data_0[index, 0, 0]$ : vec4(0.0)
Mean256_Reads(start, i, size) == start < size

\* for (int i = 0; i < localSize; i++) { index = start + i + z_offset; ... }
RECURSIVE Mean256_Accumulate(_, _, _, _, _, _, _)
Mean256_Accumulate(code, p, i, localSize, start, z_offset, size) ==
    IF i >= localSize THEN 0
    ELSE (IF Mean256_Reads(start, i, size)
          THEN ReadInput(code, p, start + i + z_offset, 0, 0) ELSE 0)
         + Mean256_Accumulate(code, p, i + 1, localSize, start, z_offset, size)

\* value_0 = (sum / size), as every invocation computes it before the barrier
Mean256_Value0(code, p, inv) ==
    LET tid == LocalID(code, inv)
        size == ParamValue(code, "input_data_0_w")
                    * ParamValue(code, "input_data_0_h")
        threads == code.workgroup.y
        localSize == CeilDiv(size, 256)
        start == tid.x * (threads * localSize) + tid.y * localSize
        z_offset == tid.z * size
    IN VDiv(Val(Mean256_Accumulate(code, p, 0, localSize, start, z_offset,
                                   size)))

\* the source up to the barrier
Mean256_Phase1(code, p, inv) ==
    LET tid == LocalID(code, inv)
        size == ParamValue(code, "input_data_0_w")
                    * ParamValue(code, "input_data_0_h")
        threads == code.workgroup.y
        localSize == CeilDiv(size, 256)
        start == tid.x * (threads * localSize) + tid.y * localSize
    IN Arrives(tid.x * tid.y + tid.x, Mean256_Value0(code, p, inv),
               \E i \in 0..(localSize - 1) :
                   Mean256_Reads(start, i, size) /\ start + i >= size,
               1)

\* the source after the barrier: the loop body is empty, and value_0 still
\* holds what the invocation computed before the barrier
Mean256_Phase2(code, p, inv, mem, garbage) ==
    LET gid == Gid(code, inv)
    IN IF gid.x >= 1 \/ gid.y >= 1 \/ gid.z >= 4
       THEN Exits
       ELSE Writes(Mean256_Value0(code, p, inv), FALSE, 0)

-----------------------------------------------------------------------------
(* Running a dispatch *)

KernelPhase1(k, inv) ==
    CASE k.code.source = "Mean2048_parallel" ->
             Mean2048_Phase1(k.code, k.pattern, inv)
      [] k.code.source = "Mean1024_parallel" ->
             Mean1024_Phase1(k.code, k.pattern, inv)
      [] k.code.source = "Mean256_parallel" ->
             Mean256_Phase1(k.code, k.pattern, inv)

KernelPhase2(k, inv, mem, garbage) ==
    CASE k.code.source = "Mean2048_parallel" ->
             Mean2048_Phase2(k.code, k.pattern, inv, mem, garbage)
      [] k.code.source = "Mean1024_parallel" ->
             Mean1024_Phase2(k.code, k.pattern, inv, mem, garbage)
      [] k.code.source = "Mean256_parallel" ->
             Mean256_Phase2(k.code, k.pattern, inv, mem, garbage)

\* the values an unwritten shared-memory slot may hold
Garbage == {Val(0), Val(7)}

\* first position in from..n of f that holds val; n + 1 when there is none
FirstAt(f, from, n, val) ==
    IF from <= n /\ f[from] = val THEN from
    ELSE LET S == {i \in (from + 1)..n : f[i] = val}
         IN IF S = {} THEN n + 1
            ELSE CHOOSE i \in S : \A j \in S : i <= j

\* input shapes on which each generator emits its parallel kernel
KernelShapes(v) ==
    CASE v = "Mean2048" -> {[h |-> 32, w |-> 64, c |-> 3],
                            [h |-> 3, w |-> 683, c |-> 36]}
      [] v = "Mean1024" -> {[h |-> 32, w |-> 32, c |-> 3],
                            [h |-> 25, w |-> 41, c |-> 8]}
      [] v = "Mean256" -> {[h |-> 16, w |-> 16, c |-> 8],
                           [h |-> 15, w |-> 17, c |-> 3]}

KernelCode(v, shape) ==
    CASE v = "Mean2048" -> Mean2048_Code(shape)
      [] v = "Mean1024" -> Mean1024_Code(shape)
      [] v = "Mean256" -> Mean256_Code(shape)

\* channel groups the output tensor holds, or the dispatch addresses
OutputGroups(k) ==
    Max(CeilDiv(k.shape.c, 4), GridSize(k.code).z)

KernelInit ==
    \E v \in BranchingVariants :
      \E shape \in KernelShapes(v), p \in 0..MaxPattern :
        LET code == KernelCode(v, shape)
            k == [shape |-> shape, code |-> code, variant |-> v,
                  invocations |-> NumInvocations(code),
                  groups |-> NumGroups(code), pattern |-> p]
        IN /\ generated_code = code
           /\ status = "Ok"
           /\ call = [dims |-> HeightWidth, variant |-> v]
           /\ shape_seen = shape
           /\ kernel = k
           /\ pc = [i \in 1..NumInvocations(code) |-> "start"]
           /\ sh_mem = [g \in 1..NumGroups(code) |-> <<>>]
           /\ output = [z \in 1..OutputGroups(k) |->
                            [n |-> 0, value |-> Zero, by |-> {}]]
           /\ arrived = [g \in 1..NumGroups(code) |->
                             [waiting |-> 0, gone |-> 0]]
           /\ released = {}
           /\ hung = {}
           /\ sched = [p1 |-> 1, p2 |-> NumInvocations(code) + 1]
           /\ trace = [IdleTrace EXCEPT
                           !.divs = [z \in 1..OutputGroups(k) |-> 0]]
           /\ counters = StaticCounters
           /\ calls = NoCalls

\* invocation inv runs from the start of main to the barrier, or returns
Phase1(inv) ==
    /\ inv >= sched.p1
    /\ inv < sched.p1 + SchedWindow
    /\ inv <= kernel.invocations
    /\ pc[inv] = "start"
    /\ \E r \in {KernelPhase1(kernel, inv)},
          g \in {GroupOf(kernel.code, inv)},
          z \in {Gid(kernel.code, inv).z + 1} :
        \E npc \in {[pc EXCEPT ![inv] = r.next]} :
          /\ pc' = npc
          /\ sh_mem' = IF r.slot < 0 THEN sh_mem
                       ELSE [sh_mem EXCEPT ![g] = (r.slot :> r.value) @@ @]
          /\ arrived' = IF r.next = "barrier"
                        THEN [arrived EXCEPT ![g].waiting = @ + 1]
                        ELSE [arrived EXCEPT ![g].gone = @ + 1]
          /\ sched' = [p1 |-> IF inv = sched.p1
                              THEN FirstAt(npc, inv + 1, kernel.invocations,
                                           "start")
                              ELSE sched.p1,
                       p2 |-> IF r.next = "barrier"
                              THEN Min(sched.p2, inv) ELSE sched.p2]
          /\ trace' = [trace EXCEPT
                           !.overread = @ \/ r.overread,
                           !.early = @ \/ (r.next = "returned"),
                           !.divided = @ \/ (r.slot >= 0 /\ r.value.div > 0),
                           !.divs[z] = @ + r.divs]
    /\ UNCHANGED <<genVars, pluginVars, kernel, output, released, hung>>

\* barrier(): every invocation of workgroup g has arrived
BarrierRelease(g) ==
    /\ g \notin released \cup hung
    /\ arrived[g].waiting > 0
    /\ arrived[g].waiting + arrived[g].gone = GroupVolume(kernel.code)
    /\ released' = released \cup {g}
    /\ UNCHANGED <<genVars, pluginVars, kernel, pc, sh_mem, output, arrived, hung, sched,
                   trace>>

\* barrier() outside uniform control flow: invocations of g returned before
\* it, and the ones waiting may never be let through
BarrierHang(g) ==
    /\ g \notin released \cup hung
    /\ arrived[g].waiting > 0
    /\ arrived[g].gone > 0
    /\ arrived[g].waiting + arrived[g].gone = GroupVolume(kernel.code)
    /\ hung' = hung \cup {g}
    /\ UNCHANGED <<genVars, pluginVars, kernel, pc, sh_mem, output, arrived, released,
                   sched, trace>>

\* invocation inv runs from the barrier to the end of main, where value_0 is
\* written to the output if main did not return
Phase2(inv) ==
    /\ inv >= sched.p2
    /\ inv < sched.p2 + SchedWindow
    /\ inv <= kernel.invocations
    /\ pc[inv] = "barrier"
    /\ GroupOf(kernel.code, inv) \in released
    /\ \E g \in {GroupOf(kernel.code, inv)},
          z \in {Gid(kernel.code, inv).z + 1},
          l \in {LocalID(kernel.code, inv)} :
        \E probe \in {KernelPhase2(kernel, inv, sh_mem[g], Zero)} :
        \E garbage \in (IF probe.uninit THEN Garbage ELSE {Zero}) :
        \E r \in {KernelPhase2(kernel, inv, sh_mem[g], garbage)},
           npc \in {[pc EXCEPT ![inv] = "done"]} :
               /\ pc' = npc
               /\ output' = IF r.write
                            THEN [output EXCEPT ![z] =
                                     [n |-> @.n + 1,
                                      value |-> r.value,
                                      by |-> @.by \cup {<<l.x, l.y>>}]]
                            ELSE output
               /\ sched' = [sched EXCEPT !.p2 =
                               IF inv = sched.p2
                               THEN FirstAt(npc, inv + 1, kernel.invocations,
                                            "barrier")
                               ELSE @]
               /\ trace' = [trace EXCEPT
                               !.uninit = @ \/ r.uninit,
                               !.divs[z] = @ + r.divs]
    /\ UNCHANGED <<genVars, pluginVars, kernel, sh_mem, arrived, released, hung>>

KernelNext ==
    \/ \E inv \in sched.p1..(sched.p1 + SchedWindow - 1) : Phase1(inv)
    \/ \E g \in 1..kernel.groups : BarrierRelease(g)
    \/ \E g \in 1..kernel.groups : BarrierHang(g)
    \/ \E inv \in sched.p2..(sched.p2 + SchedWindow - 1) : Phase2(inv)

KernelSpec == KernelInit /\ [][KernelNext]_vars


-----------------------------------------------------------------------------
(* Claims about a dispatch (KernelSpec) *)

\* every invocation has left the kernel
Finished ==
    /\ kernel.variant # "none"
    /\ sched.p1 > kernel.invocations
    /\ sched.p2 > kernel.invocations

InputSize == kernel.shape.h * kernel.shape.w

\* sum of the input elements lo..hi of the buffer filled with pattern p
RECURSIVE RangeSum(_, _, _)
RangeSum(p, lo, hi) ==
    IF lo > hi THEN 0
    ELSE IF lo = hi THEN InputAt(p, lo)
    ELSE RangeSum(p, lo, (lo + hi) \div 2)
             + RangeSum(p, ((lo + hi) \div 2) + 1, hi)

\* sum of the N elements of channel group z (0-based) of the input
TotalSum(z) ==
    RangeSum(kernel.pattern, z * InputSize, (z + 1) * InputSize - 1)

\* the invocations of the dispatch whose gl_LocalInvocationID.z is z
InvocationsOfGroup(z) ==
    {inv \in 1..kernel.invocations : LocalID(kernel.code, inv).z = z}

\* the chunks of the invocations of channel group z are pairwise disjoint and
\* cover 0..N-1: together they hold N indices, and every index of 0..N-1
ChunksPartition(z) ==
    LET chunk == [inv \in InvocationsOfGroup(z) |->
                      Mean2048_Chunk(kernel.code, inv)]
        tagged == UNION {{<<inv, i>> : i \in chunk[inv]} : inv \in DOMAIN chunk}
    IN /\ UNION {chunk[inv] : inv \in DOMAIN chunk} = 0..(InputSize - 1)
       /\ Cardinality(tagged) = InputSize

\* C6: in the threshold-2048 kernel the 64 chunks of a channel group are
\* pairwise disjoint and cover [0, N); the 64 partial sums the combiner reads
\* add up to the sum of the N elements of the group, and value_0 is that sum
\* divided by N, for every channel group the workgroup processes.
C6_PartitionSum ==
    (kernel.variant = "Mean2048" /\ Finished) =>
        \A z \in 0..(Min(CeilDiv(kernel.shape.c, 4), 8) - 1) :
            /\ ChunksPartition(z)
            /\ CombineSum(sh_mem[1], 0, 64, z * 64, Zero, InputSize)
                   = Val(TotalSum(z))
            /\ output[z + 1].n > 0
            /\ VEq(output[z + 1].value, VDiv(Val(TotalSum(z))), InputSize)

\* the kernel finished on an input whose size 64 does not divide
C6_Witness ==
    /\ kernel.variant = "Mean2048"
    /\ Finished
    /\ InputSize % 64 # 0
    /\ kernel.pattern = 1
    /\ output[8].n > 0

\* C7: up to the barrier no invocation of any parallel kernel evaluates the
\* input accessor at a flat index >= N; such iterations add zero.
C7_NoOverRead ==
    kernel.variant # "none" => ~trace.overread

\* the last invocation of a 16x16 slice, whose chunk starts at index 255 of
\* a 255-element input, has stored its (zero) partial result
C7_Witness ==
    /\ kernel.variant = "Mean256"
    /\ InputSize = 255
    /\ pc[256] = "barrier"
    /\ LocalID(kernel.code, 256) = uint3(15, 15, 0)
    /\ Mean256_Value0(kernel.code, kernel.pattern, 256).num = 0

\* C8: in the threshold-2048 kernel every invocation of the workgroup reaches
\* the barrier: none returns before it, and none passes it before all of the
\* workgroup's invocations have arrived.
C8_AllReachBarrier ==
    kernel.variant = "Mean2048" =>
        /\ ~trace.early
        /\ \A g \in released :
               arrived[g].waiting = GroupVolume(kernel.code)

\* C9: in the threshold-2048 kernel, for every channel group z in
\* [0, ceil(C/4)), exactly one invocation writes value_0 for z, the one at
\* local position (0,0).
C9_OneWriterPerGroup ==
    (kernel.variant = "Mean2048" /\ Finished) =>
        \A z \in 1..CeilDiv(kernel.shape.c, 4) :
            /\ output[z].n = 1
            /\ output[z].by = {<<0, 0>>}

\* C10: in every parallel kernel the division by N is applied once per
\* channel group, to the combined sum; no partial sum is divided before it
\* is stored to shared memory or written to the output.
C10_DivideOnce ==
    kernel.variant # "none" =>
        /\ ~trace.divided
        /\ \A z \in DOMAIN output :
               /\ trace.divs[z] <= 1
               /\ output[z].n > 0 =>
                      (trace.divs[z] = 1 /\ output[z].value.div = 1)

-----------------------------------------------------------------------------
(* One dispatch of an emitted serial kernel *)

\* the loop steps and the scale of value_0 in the serial sources
Mean1024_SerialStep == 1
Mean2048_SerialStep == 1
Mean256_SerialStep == 2
Mean1024_SerialScale == 1
Mean2048_SerialScale == 1
Mean256_SerialScale == 4
\* gid.z >= 8 returns in the serial source of Mean (threshold 2048)
Mean2048_SerialMaxZ == 8

\* (v) * k
VScale(a, k) == [num |-> a.num * k, div |-> a.div]

\* the values h takes in for (int h = 0; h < n; h += step)
LoopValues(n, step) == {i \in 0..(n - 1) : i % step = 0}

\* the k-th (0-based) value of that loop
LoopValue(k, step) == k * step

\* the sum over iterations from..to-1 of the nested loops, h outer and w
\* inner, of $input_data_0[w, h, gid.z]$ (the range split in halves)
RECURSIVE SerialAccumulate(_, _, _, _, _, _, _)
SerialAccumulate(code, p, z, step, nW, from, to) ==
    IF from >= to THEN 0
    ELSE IF to = from + 1
    THEN ReadInput(code, p, LoopValue(from % nW, step),
                   LoopValue(from \div nW, step), z)
    ELSE SerialAccumulate(code, p, z, step, nW, from, (from + to) \div 2)
         + SerialAccumulate(code, p, z, step, nW, (from + to) \div 2, to)

\* highp vec4 sum = vec4(0.0); highp float size = float(w * h);
\* for (h ...) for (w ...) sum += $input_data_0[w, h, gid.z]$;
\* value_0 = (sum / size) * scale
SerialLoops(code, p, z, step, scale) ==
    LET h == ParamValue(code, "input_data_0_h")
        w == ParamValue(code, "input_data_0_w")
        rows == LoopValues(h, step)
        cols == LoopValues(w, step)
        nW == Cardinality(cols)
        n == Cardinality(rows) * nW
    IN [write |-> TRUE,
        value |-> VScale(VDiv(Val(SerialAccumulate(code, p, z, step, nW, 0,
                                                   n))), scale),
        rows |-> rows, cols |-> cols, iterations |-> n]

\* main returned before the loops
SerialReturns ==
    [value |-> Zero, write |-> FALSE, rows |-> {}, cols |-> {},
     iterations |-> 0]

\* the serial source of Mean (threshold 1024), run by the invocation gid
Mean1024_Serial(code, p, gid) ==
    SerialLoops(code, p, gid.z, Mean1024_SerialStep, Mean1024_SerialScale)

\* the serial source of Mean (threshold 2048)
Mean2048_Serial(code, p, gid) ==
    IF gid.x >= 1 \/ gid.y >= 1 \/ gid.z >= Mean2048_SerialMaxZ
    THEN SerialReturns
    ELSE SerialLoops(code, p, gid.z, Mean2048_SerialStep,
                     Mean2048_SerialScale)

\* the serial source of Mean (threshold 256)
Mean256_Serial(code, p, gid) ==
    SerialLoops(code, p, gid.z, Mean256_SerialStep, Mean256_SerialScale)

KernelSerial(k, gid) ==
    CASE k.code.source = "Mean1024_serial" ->
             Mean1024_Serial(k.code, k.pattern, gid)
      [] k.code.source = "Mean2048_serial" ->
             Mean2048_Serial(k.code, k.pattern, gid)
      [] k.code.source = "Mean256_serial" ->
             Mean256_Serial(k.code, k.pattern, gid)

\* input shapes on which each generator emits its serial kernel
SerialShapes(v) ==
    CASE v = "Mean1024" -> {[h |-> 2, w |-> 3, c |-> 5],
                            [h |-> 3, w |-> 2, c |-> 12]}
      [] v = "Mean2048" -> {[h |-> 2, w |-> 3, c |-> 36],
                            [h |-> 1, w |-> 4, c |-> 8]}
      [] v = "Mean256" -> {[h |-> 1, w |-> 257, c |-> 5],
                           [h |-> 2, w |-> 129, c |-> 24]}

\* workload uint3(): the dispatch covers the output tensor, 1 x 1 x ceil(c/4),
\* one invocation per channel group; invocation inv has gid = (0, 0, inv - 1)
SerialGid(inv) == uint3(0, 0, inv - 1)

SerialInit ==
    \E v \in BranchingVariants :
      \E shape \in SerialShapes(v), p \in 0..MaxPattern :
        LET code == KernelCode(v, shape)
            n == CeilDiv(shape.c, 4)
        IN /\ generated_code = code
           /\ status = "Ok"
           /\ call = [dims |-> HeightWidth, variant |-> v]
           /\ shape_seen = shape
           /\ kernel = [shape |-> shape, code |-> code, variant |-> v,
                        invocations |-> n, groups |-> 1, pattern |-> p]
           /\ pc = [i \in 1..n |-> "start"]
           /\ sh_mem = <<>>
           /\ output = [z \in 1..n |->
                            [n |-> 0, value |-> Zero, by |-> {},
                             rows |-> {}, cols |-> {}, iterations |-> 0]]
           /\ arrived = <<>>
           /\ released = {}
           /\ hung = {}
           /\ sched = [p1 |-> 1, p2 |-> n + 1]
           /\ trace = IdleTrace
           /\ counters = StaticCounters
           /\ calls = NoCalls

\* invocation inv runs main from start to end; value_0 is written to the
\* output if main did not return
SerialRun(inv) ==
    /\ pc[inv] = "start"
    /\ \E r \in {KernelSerial(kernel, SerialGid(inv))} :
          /\ pc' = [pc EXCEPT ![inv] = "done"]
          /\ output' = IF r.write
                       THEN [output EXCEPT ![inv] =
                                [n |-> @.n + 1, value |-> r.value,
                                 by |-> @.by \cup {<<0, 0>>},
                                 rows |-> r.rows, cols |-> r.cols,
                                 iterations |-> r.iterations]]
                       ELSE output
    /\ UNCHANGED <<genVars, pluginVars, kernel, sh_mem, arrived, released,
                   hung, sched, trace>>

SerialNext == \E inv \in 1..kernel.invocations : SerialRun(inv)

SerialSpec == SerialInit /\ [][SerialNext]_vars

\* every invocation of the serial dispatch has run
SerialFinished ==
    /\ kernel.variant # "none"
    /\ \A inv \in 1..kernel.invocations : pc[inv] = "done"

\* C11: in the serial kernel of every branching generator, for every channel
\* group z in [0, ceil(c/4)), one invocation visits each of the h*w positions
\* exactly once and writes value_0 = sum / (h*w); no position is skipped and
\* no channel group is left unwritten.
C11_SerialFullSum ==
    SerialFinished =>
        \A z \in 1..CeilDiv(kernel.shape.c, 4) :
            /\ output[z].n = 1
            /\ output[z].rows = 0..(kernel.shape.h - 1)
            /\ output[z].cols = 0..(kernel.shape.w - 1)
            /\ output[z].iterations = kernel.shape.h * kernel.shape.w
            /\ VEq(output[z].value, VDiv(Val(TotalSum(z - 1))), InputSize)

-----------------------------------------------------------------------------
(* More claims about the generator (Spec) *)

\* C12: on every successful return of every variant the input binding mode
\* is ONLY_DEFINITIONS and the output binding mode is AUTO.
C12_BindingModes ==
    status = "Ok" =>
        /\ generated_code.input = "ONLY_DEFINITIONS"
        /\ generated_code.output = "AUTO"

\* GenerateCode of variant v
GenerateCodeOf(v, dims, shape, old) ==
    CASE v = "Mean1024" -> Mean1024_GenerateCode(dims, shape, old)
      [] v = "Mean2048" -> Mean2048_GenerateCode(dims, shape, old)
      [] v = "Mean256" -> Mean256_GenerateCode(dims, shape, old)
      [] v = "MeanReduce" -> MeanReduce_GenerateCode(dims, shape, old)

\* C13: whatever calls were made before it, a call returns the status and
\* the GeneratedCode that the same call (equal attributes, equal input shape)
\* returns when it is the first call, on a fresh object; so two calls with
\* equal inputs return equal results.
C13_Stateless ==
    status # "none" =>
        LET shape == IF status = "Ok" THEN shape_seen
                     ELSE CHOOSE s \in RejectShapes : TRUE
            first == GenerateCodeOf(call.variant, call.dims, shape, EmptyCode)
        IN /\ status = first.status
           /\ status = "Ok" => generated_code = first.code

\* a successful call of the threshold-2048 generator for a serial shape,
\* made at some point of a sequence of calls
C13_Witness ==
    /\ status = "Ok"
    /\ call.variant = "Mean2048"
    /\ shape_seen = [h |-> 1, w |-> 2047, c |-> 3]
    /\ generated_code = Mean2048_Code(shape_seen)

-----------------------------------------------------------------------------
(* The delegate plugin (src/unnamed/part_000) *)

\* At most MaxCalls create calls and MaxCalls destroy calls are made between
\* two resets, and at most MaxCalls delegates are alive at a time.
MaxCalls == 6

\* values passed to set_destroy_callback
Callbacks == {"nullptr", "callback"}

\* TfLiteDelegate* ptr = TfLiteGpuDelegateCreate(nullptr); return ptr;
tflite_plugin_create_delegate ==
    /\ calls.created < MaxCalls
    /\ calls.live < MaxCalls
    /\ calls' = [calls EXCEPT !.created = @ + 1, !.live = @ + 1]
    /\ UNCHANGED <<genVars, kernelVars, counters>>

\* TfLiteGpuDelegateDelete(delegate), on a delegate that create returned
tflite_plugin_destroy_delegate ==
    /\ calls.live > 0
    /\ calls.destroyed < MaxCalls
    /\ calls' = [calls EXCEPT !.destroyed = @ + 1, !.live = @ - 1]
    /\ UNCHANGED <<genVars, kernelVars, counters>>

\* destruction_callback = callback;
set_destroy_callback ==
    \E callback \in Callbacks :
        /\ counters' = [counters EXCEPT !.destruction_callback = callback]
        /\ UNCHANGED <<genVars, kernelVars, calls>>

\* the four counters are set to zero; calls are counted from here again
initialize_counters ==
    /\ counters' = [counters EXCEPT !.num_delegates_created = 0,
                                    !.num_delegates_destroyed = 0,
                                    !.num_delegates_invoked = 0,
                                    !.options_counter = 0]
    /\ calls' = [calls EXCEPT !.created = 0, !.destroyed = 0]
    /\ UNCHANGED <<genVars, kernelVars>>

get_num_delegates_created == counters.num_delegates_created
get_num_delegates_destroyed == counters.num_delegates_destroyed

PluginNext ==
    \/ tflite_plugin_create_delegate
    \/ tflite_plugin_destroy_delegate
    \/ set_destroy_callback
    \/ initialize_counters

PluginSpec == Init /\ [][PluginNext]_vars

\* C14: get_num_delegates_created() is the number of create calls and
\* get_num_delegates_destroyed() the number of destroy calls made since the
\* last initialize_counters.
C14_CountersCount ==
    /\ get_num_delegates_created = calls.created
    /\ get_num_delegates_destroyed = calls.destroyed

-----------------------------------------------------------------------------
(* The floating-point declarations of the emitted sources *)

\* a declaration of the source text: its precision qualifier ("none" when it
\* has none) and what the variable is used for: "sum" holds an accumulated
\* sum, "divisor" divides a sum to form the mean
Decl(n, precision, role) == [name |-> n, precision |-> precision, role |-> role]

SumAndSize ==
    {Decl("sum", "highp", "sum"), Decl("size", "highp", "divisor")}

\* the parallel source of Mean (threshold 2048) with inputSize left to the
\* default precision
Mean2048_ParallelDecls_Default ==
    {Decl("sum", "highp", "sum"), Decl("zilch", "highp", "other"),
     Decl("cDim", "none", "other"), Decl("inputSize", "none", "divisor")}

\* highp vec4 sum; highp vec4 zilch; float cDim; highp float inputSize
Mean2048_ParallelDecls ==
    {Decl("sum", "highp", "sum"), Decl("zilch", "highp", "other"),
     Decl("cDim", "none", "other"), Decl("inputSize", "highp", "divisor")}

\* shared float tempSums[...]: declared, never assigned or read
MeanReduce_Decls == {Decl("tempSums", "none", "unused")}

Declarations(source) ==
    CASE source = "Mean1024_parallel" -> SumAndSize
      [] source = "Mean1024_serial" -> SumAndSize
      [] source = "Mean2048_parallel" -> Mean2048_ParallelDecls
      [] source = "Mean2048_serial" -> SumAndSize
      [] source = "Mean256_parallel" -> SumAndSize
      [] source = "Mean256_serial" -> SumAndSize
      [] source = "MeanReduce" -> MeanReduce_Decls

\* C15: in the source of every strategy branch every variable that holds an
\* accumulated sum and every divisor that forms the mean is declared highp.
C15_HighpSums ==
    status = "Ok" =>
        \A d \in Declarations(generated_code.source) :
            d.role \in {"sum", "divisor"} => d.precision = "highp"

\* the parallel source of Mean (threshold 2048), which also declares a float
\* without a qualifier, was returned
C15_Witness ==
    /\ status = "Ok"
    /\ generated_code.source = "Mean2048_parallel"
    /\ \E d \in Declarations(generated_code.source) : d.precision = "none"
    /\ shape_seen.c = 2

-----------------------------------------------------------------------------
(* More claims about a dispatch (KernelSpec) *)

\* sh_mem[gridID + z_offset], z_offset = localID.z * workGridSize: the slot
\* invocation inv of the threshold-2048 kernel stores to
Mean2048_Slot(code, inv) ==
    LET localID == LocalID(code, inv)
    IN (localID.y * code.workgroup.x + localID.x)
           + localID.z * (code.workgroup.x * code.workgroup.y)

\* the invocations that ran the combine loop: they passed the barrier and did
\* not return at gid.x >= 1 || gid.y >= 1
Mean2048_Combiners ==
    {inv \in 1..kernel.invocations :
        /\ pc[inv] = "done"
        /\ Gid(kernel.code, inv).x = 0
        /\ Gid(kernel.code, inv).y = 0}

\* C16: in the threshold-2048 kernel every slot sh_mem[i + z*64], i < 64,
\* that the combiner of channel group z reads was stored before the read, in
\* phase 1, by an invocation of the workgroup with localID.z = z.
C16_WrittenBeforeRead ==
    kernel.variant = "Mean2048" =>
        /\ ~trace.uninit
        /\ Finished =>
            /\ \A w \in 1..kernel.invocations :
                   pc[w] = "done" =>
                       Mean2048_Slot(kernel.code, w) \div 64
                           = LocalID(kernel.code, w).z
            /\ \A inv \in Mean2048_Combiners : \A i \in 0..63 :
                   (i + LocalID(kernel.code, inv).z * 64)
                       \in DOMAIN sh_mem[GroupOf(kernel.code, inv)]

\* the dispatch on a 3-channel input finished: the invocations of z >= 1
\* returned before the barrier, and the combiner of z = 0 wrote its mean
C16_Witness ==
    /\ kernel.variant = "Mean2048"
    /\ Finished
    /\ kernel.shape.c = 3
    /\ trace.early
    /\ output[1].n = 1

\* the flat indices at which invocation inv of the threshold-1024 kernel
\* evaluates the input accessor
Mean1024_Chunk(code, inv) ==
    LET gid == Gid(code, inv)
        localID == LocalID(code, inv)
        size == ParamValue(code, "input_data_0_w")
                    * ParamValue(code, "input_data_0_h")
        sizeX == code.workgroup.x
        sizeY == code.workgroup.y
        groupsY == NumWorkGroups(code).y
        workGridSize == sizeX * sizeY * NumWorkGroups(code).x * groupsY
        taskSize == Mean1024_TaskSize(size, workGridSize)
        flattenedIndex == gid.x * sizeX * sizeY * groupsY
                              + gid.y * sizeX * sizeY
                              + sizeX * localID.y + localID.x
        startIndex == flattenedIndex * taskSize
    IN {i \in startIndex..(startIndex + taskSize - 1) :
            Mean1024_Reads(i, size)}

\* the chunks of the invocations with gid.z = z are pairwise disjoint and
\* cover 0..N-1
Mean1024_ChunksPartition(z) ==
    LET invs == {inv \in 1..kernel.invocations : Gid(kernel.code, inv).z = z}
        chunk == [inv \in invs |-> Mean1024_Chunk(kernel.code, inv)]
        tagged == UNION {{<<inv, i>> : i \in chunk[inv]} : inv \in invs}
    IN /\ UNION {chunk[inv] : inv \in invs} = 0..(InputSize - 1)
       /\ Cardinality(tagged) = InputSize

\* C17: in the threshold-1024 kernel, dispatched with workload 4x4x1 and
\* workgroup 2x2xZ, the chunks of a channel group are disjoint and cover
\* [0, N), the combiner reads only slots that were written, and the value
\* written is the sum of the N elements divided by N.
C17_Mean1024Partition ==
    (kernel.variant = "Mean1024" /\ Finished) =>
        \A z \in 0..(CeilDiv(kernel.shape.c, 4) - 1) :
            /\ Mean1024_ChunksPartition(z)
            /\ ~trace.uninit
            /\ output[z + 1].n > 0
            /\ VEq(output[z + 1].value, VDiv(Val(TotalSum(z))), InputSize)

\* the slots of workgroup g stored so far number as many as the invocations
\* of g that stored: no two of them stored to the same slot
SlotsDistinct(g) == Cardinality(DOMAIN sh_mem[g]) = arrived[g].waiting

\* C19: in every parallel kernel each shared-memory slot is written by at
\* most one invocation of a workgroup in phase 1, and a step of phase 2
\* leaves shared memory as it is.
C19_SlotsExclusive ==
    /\ [](kernel.variant # "none" =>
              \A g \in 1..kernel.groups : SlotsDistinct(g))
    /\ [][(\E inv \in 1..kernel.invocations :
               pc[inv] = "barrier" /\ pc'[inv] = "done")
              => sh_mem' = sh_mem]_vars

-----------------------------------------------------------------------------
(* Claims about the returned geometry (Spec) *)

\* C18: every parallel result places at most one workgroup along x and along
\* y: workload.x <= workgroup.x and workload.y <= workgroup.y, that is
\* gl_NumWorkGroups.x = gl_NumWorkGroups.y = 1.
C18_OneWorkgroupOnReducedAxes ==
    (status = "Ok" /\ generated_code.source \in ParallelSources) =>
        /\ generated_code.workload.x <= generated_code.workgroup.x
        /\ generated_code.workload.y <= generated_code.workgroup.y
        /\ NumWorkGroups(generated_code).x = 1
        /\ NumWorkGroups(generated_code).y = 1

-----------------------------------------------------------------------------
(* A dispatch under fair scheduling *)

\* Fair scheduling: the runtime keeps running invocations, and a barrier that
\* can let its workgroup through or block it does one of the two, as long as
\* any step is possible.
\* a dispatch of the parallel kernel of Mean (threshold 2048)
Mean2048_KernelInit == KernelInit /\ kernel.variant = "Mean2048"

FairKernelSpec ==
    Mean2048_KernelInit /\ [][KernelNext]_vars /\ WF_vars(KernelNext)

\* C20: under fair scheduling every invocation of the threshold-2048
\* parallel kernel eventually terminates; none waits at the barrier for ever.
C20_Terminates ==
    (kernel.variant = "Mean2048") ~> Finished

-----------------------------------------------------------------------------
(* The z extent of the threshold-1024 workgroup (Spec) *)

\* C21: in a parallel result of Mean (threshold 1024) the z extent of the
\* workgroup, kWorkgroupHintZ = ceil(c / 4.0 - .0001), is ceil(c / 4), the
\* number of 4-wide channel groups of the input.
C21_HintZIsChannelGroups ==
    (status = "Ok" /\ call.variant = "Mean1024"
        /\ generated_code.source = "Mean1024_parallel") =>
        generated_code.workgroup.z = CeilDiv(shape_seen.c, 4)

\* a parallel result for a channel count that is a multiple of 4, where
\* c / 4.0 is a whole number and the offset decides the rounding
C21_Witness ==
    /\ status = "Ok"
    /\ call.variant = "Mean1024"
    /\ generated_code.source = "Mean1024_parallel"
    /\ shape_seen.c = 4
    /\ generated_code.workgroup.z = 1

-----------------------------------------------------------------------------
(* The indices of sh_mem (KernelSpec) *)

\* sh_mem[flattenedIndex + z_offset], z_offset = gid.z * workGridSize: the
\* slot invocation inv of the threshold-1024 kernel stores to
Mean1024_Slot(code, inv) ==
    LET gid == Gid(code, inv)
        localID == LocalID(code, inv)
        groupsX == NumWorkGroups(code).x
        groupsY == NumWorkGroups(code).y
        sizeX == code.workgroup.x
        sizeY == code.workgroup.y
        workGridSize == sizeX * sizeY * groupsX * groupsY
        local_grid_index == sizeX * localID.y + localID.x
        global_grid_index == gid.x * sizeX * sizeY * groupsY
                                 + gid.y * sizeX * sizeY
        flattenedIndex == global_grid_index + local_grid_index
    IN flattenedIndex + gid.z * workGridSize

\* sh_mem[i + z_offset] for i in 0..workGridSize-1: the slots the combine
\* loop of the threshold-1024 kernel reads in invocation inv
Mean1024_CombineReads(code, inv) ==
    LET workGridSize == code.workgroup.x * code.workgroup.y
                            * NumWorkGroups(code).x * NumWorkGroups(code).y
        z_offset == Gid(code, inv).z * workGridSize
    IN {i + z_offset : i \in 0..(workGridSize - 1)}

\* sh_mem[i + z_offset] for i in 0..workGridSize-1, z_offset = localID.z *
\* workGridSize: the slots the combine loop of the threshold-2048 kernel reads
Mean2048_CombineReads(code, inv) ==
    LET workGridSize == code.workgroup.x * code.workgroup.y
        z_offset == LocalID(code, inv).z * workGridSize
    IN {i + z_offset : i \in 0..(workGridSize - 1)}

\* the index of the store to sh_mem in invocation inv of kernel k
KernelSlot(k, inv) ==
    CASE k.code.source = "Mean2048_parallel" -> Mean2048_Slot(k.code, inv)
      [] k.code.source = "Mean1024_parallel" -> Mean1024_Slot(k.code, inv)

\* the indices of the reads of sh_mem in invocation inv of kernel k
KernelCombineReads(k, inv) ==
    CASE k.code.source = "Mean2048_parallel" ->
             Mean2048_CombineReads(k.code, inv)
      [] k.code.source = "Mean1024_parallel" ->
             Mean1024_CombineReads(k.code, inv)

\* the valid indices of the sh_mem array the result declares
SharedIndices(code) == 0..(SharedCount(code) - 1)

\* C22: in the parallel kernels of Mean with thresholds 1024 and 2048 every
\* index at which an invocation writes or reads sh_mem is at least 0 and below
\* the element count the same result declares for sh_mem.
C22_SharedIndicesInBounds ==
    kernel.variant \in {"Mean1024", "Mean2048"} =>
        /\ \A g \in 1..kernel.groups :
               DOMAIN sh_mem[g] \subseteq SharedIndices(kernel.code)
        /\ Finished =>
               \A inv \in 1..kernel.invocations :
                   /\ pc[inv] = "done" =>
                       /\ KernelSlot(kernel, inv)
                              \in SharedIndices(kernel.code)
                       /\ KernelSlot(kernel, inv)
                              \in DOMAIN sh_mem[GroupOf(kernel.code, inv)]
                   /\ (pc[inv] = "done" /\ Gid(kernel.code, inv).x = 0
                           /\ Gid(kernel.code, inv).y = 0) =>
                       KernelCombineReads(kernel, inv)
                           \subseteq SharedIndices(kernel.code)

\* a finished dispatch of the threshold-1024 kernel on 8 channels: the
\* invocation gid = (3, 3, 1) stored to slot 55, the highest index used, of
\* the 128 declared
C22_Witness ==
    /\ kernel.variant = "Mean1024"
    /\ Finished
    /\ kernel.shape.c = 8
    /\ SharedCount(kernel.code) = 128
    /\ \E g \in 1..kernel.groups : 55 \in DOMAIN sh_mem[g]
    /\ \A g \in 1..kernel.groups : \A i \in DOMAIN sh_mem[g] : i <= 55

=============================================================================
